---- MODULE Spec2Model ----
(***************************************************************************)
(* CFGFastSoot (angr/analyses/cfg/cfg_fast_soot.py): recovery of the       *)
(* control-flow graph of a Soot program.  The program image is a set of    *)
(* methods made of labelled blocks of statements; the analysis seeds one   *)
(* job per method, pops jobs, lifts the block of each job, adds the node   *)
(* and its incoming edge to the graph and, the first time an address is    *)
(* seen, scans the block for successors and inserts one job per successor. *)
(***************************************************************************)
EXTENDS Integers, Sequences, FiniteSets, Bags, TLC

VARIABLES
    image,      \* project.loader.main_object: descriptor -> [present, blocks]
    entry,      \* project.entry.method: a descriptor of the image, or None
    pc,         \* "init" before _pre_analysis, "scan" in the job loop, "done", "error"
    jobs,       \* the job queue (a bag of CFGJob)
    traced,     \* self._traced_addresses
    nodes,      \* self._nodes: the addresses that are keys of the node table
    gnodes,     \* self.graph: its nodes (CFGNode: addr, size, function_address)
    gedges,     \* self.graph: its edges (src, dst, jumpkind, stmt_idx)
    functions,  \* self.kb.functions: function address -> addresses of its blocks
    fedges,     \* function transition/call edges recorded in the knowledge base
    returning,  \* the functions recorded by _add_returning_function
    scans,      \* history: bag of the addresses _soot_get_successors was run on
    lifts,      \* history: bag of the addresses project.factory.block was asked for
    inserted,   \* history: number of jobs ever inserted
    processed,  \* history: number of jobs popped and processed
    scan,       \* one scan of a block on its own: its input, then its result
    blockaddr_to_function,  \* make_functions: address of a block -> its function
    runs,       \* history: number of runs of make_functions
    pop_policy, \* history: the policy the last job was popped with
    partition,  \* history: the seeds and the stages of the last make_functions
    hooked,     \* the addresses the project has a hook (a procedure) for
    made        \* the jobs of a list of successors on its own: its input, then its result

vars == <<image, entry, pc, jobs, traced, nodes, gnodes, gedges, functions,
          fedges, returning, scans, lifts, inserted, processed, scan,
          blockaddr_to_function, runs, pop_policy, partition, hooked, made>>

-----------------------------------------------------------------------------
(* Bounds of the model. *)

\* statements in the whole program image
MaxStmts == 2

\* runs of make_functions on the finished graph
MaxRuns == 2

\* successors of one block handed to _create_jobs
MaxSuccs == 2

-----------------------------------------------------------------------------
(* The program image. *)

\* the method descriptors a program may name; one that is not present in the
\* image is an external method
Universe == {"A", "B", "C"}

None == "None"
NoInvoke == "NoInvoke"
NoLabel == 0 - 1
\* the source statement id of a fallthrough successor ('default' in the code)
DefaultStmt == 0 - 2

SootAddressDescriptor(m, b, s) == [method |-> m, block_idx |-> b, stmt_idx |-> s]
NoAddr == SootAddressDescriptor(None, NoLabel, NoLabel)

Range(s) == {s[i] : i \in DOMAIN s}

RECURSIVE SumLen(_)
SumLen(lay) == IF lay = <<>> THEN 0 ELSE Head(lay) + SumLen(Tail(lay))

\* the label of the i-th block of a method whose blocks have the lengths lay:
\* statements are numbered consecutively through the method
LabelAt(lay, i) == SumLen(SubSeq(lay, 1, i - 1))

\* the ways to cut n statements into blocks
Layouts(n) ==
    {lay \in UNION {[1..k -> 1..n] : k \in 0..n} : SumLen(lay) = n}

StmtKinds == {"Other", "IfStmt", "GotoStmt", "InvokeStmt", "AssignStmt"}

\* the statements over the given kinds, jump targets and declared callees
StmtsOver(kinds, labels, callees) ==
    {st \in
        {[kind |-> "Other", target |-> NoLabel, callee |-> NoInvoke]}
        \cup {[kind |-> k, target |-> t, callee |-> NoInvoke] :
                 k \in {"IfStmt", "GotoStmt"}, t \in labels}
        \cup {[kind |-> "InvokeStmt", target |-> NoLabel, callee |-> c] : c \in callees}
        \cup {[kind |-> "AssignStmt", target |-> NoLabel, callee |-> c] :
                 c \in callees \cup {NoInvoke}}
     : st.kind \in kinds}

MakeBlocks(lay, flat) ==
    [i \in 1..Len(lay) |->
        [idx |-> i - 1,
         label |-> LabelAt(lay, i),
         statements |-> SubSeq(flat, LabelAt(lay, i) + 1, LabelAt(lay, i) + lay[i])]]

Labels(lay) == {LabelAt(lay, i) : i \in 1..Len(lay)}

\* the method bodies of n statements
Bodies(n, kinds, callees) ==
    UNION {{MakeBlocks(lay, flat) : flat \in [1..n -> StmtsOver(kinds, Labels(lay), callees)]}
           : lay \in Layouts(n)}

\* a method of the image: absent (external), or present with its blocks
\* (a present method may have no block at all: an abstract or native method)
Absent == [present |-> FALSE, blocks |-> <<>>]

MethodImages(n, kinds, callees) ==
    {[present |-> TRUE, blocks |-> b] : b \in Bodies(n, kinds, callees)}
    \cup (IF n = 0 THEN {Absent} ELSE {})

Present == {m \in Universe : image[m].present}

\* obj.get_soot_method(desc, none_if_missing=True) is None
IsExternal(desc) == desc \notin Universe \/ ~image[desc].present

\* method.block_by_label[label]
block_by_label(method, label) == CHOOSE b \in Range(method) : b.label = label

-----------------------------------------------------------------------------
(* The IR adapter and the dispatch resolver (external collaborators). *)

NoBlock == [idx |-> NoLabel, label |-> NoLabel, statements |-> <<>>]

\* the block holding the statement of an address, when the image has one
BlocksAt(addr) ==
    IF IsExternal(addr.method) THEN {}
    ELSE {b \in Range(image[addr.method].blocks) :
             b.label <= addr.stmt_idx /\ addr.stmt_idx < b.label + Len(b.statements)}

\* project.factory.block(addr) raises SimMemoryError/SimEngineError
LiftFails(addr) == BlocksAt(addr) = {}

\* project.factory.block(addr).soot
Lift(addr) == CHOOSE b \in BlocksAt(addr) : TRUE

\* what resolve_invoke may return: an ordered set of methods of the image
TargetSeqs ==
    {t \in UNION {[1..k -> Present] : k \in 0..Cardinality(Present)} :
        \A i, j \in DOMAIN t : t[i] = t[j] => i = j}

IsInvoke(stmt) ==
    stmt.kind = "InvokeStmt" \/ (stmt.kind = "AssignStmt" /\ stmt.callee # NoInvoke)

\* the labels of the call sites of a block, from a statement on, whose declared
\* callee has a method in the image
ResolvedSites(block, stmt_idx) ==
    {block.label + p - 1 : p \in
        {q \in 1..Len(block.statements) :
            /\ block.label + q - 1 >= stmt_idx
            /\ IsInvoke(block.statements[q])
            /\ ~IsExternal(block.statements[q].callee)}}

\* the scan from stmt_idx on gets as far as the statement labelled site: no
\* goto and no call with a successor comes before it
Reaches(block, stmt_idx, resolve, site) ==
    \A l \in stmt_idx..(site - 1) :
        LET stmt == block.statements[l - block.label + 1] IN
        /\ stmt.kind # "GotoStmt"
        /\ IsInvoke(stmt) => (~IsExternal(stmt.callee) /\ resolve[l] = <<>>)

\* the answers of the dispatch resolver for the call sites of one scan; it is
\* consulted at the sites the scan reaches
Resolutions(block, stmt_idx) ==
    {resolve \in [ResolvedSites(block, stmt_idx) -> TargetSeqs] :
        \A site \in DOMAIN resolve :
            ~Reaches(block, stmt_idx, resolve, site) => resolve[site] = <<>>}

-----------------------------------------------------------------------------
(* Statement-level successors. *)

Successor(stmt_idx, addr, target, jumpkind) ==
    [stmt_idx |-> stmt_idx, stmt_addr |-> addr, target |-> target, jumpkind |-> jumpkind]

\* one 'Ijk_Call' successor per candidate; a single one for an external callee
_soot_create_invoke_successors_First(label, addr, callee, resolve) ==
    IF IsExternal(callee)
    THEN <<Successor(label, addr, SootAddressDescriptor(callee, 0, 0), "Ijk_Call")>>
    ELSE [i \in 1..(IF resolve[label] = <<>> THEN 0 ELSE 1) |->
            Successor(label, addr, SootAddressDescriptor(resolve[label][i], 0, 0), "Ijk_Call")]

_soot_create_invoke_successors_NoExternal(label, addr, callee, resolve) ==
    IF IsExternal(callee)
    THEN <<>>
    ELSE [i \in 1..Len(resolve[label]) |->
            Successor(label, addr, SootAddressDescriptor(resolve[label][i], 0, 0), "Ijk_Call")]

_soot_create_invoke_successors(label, addr, callee, resolve) ==
    IF IsExternal(callee)
    THEN <<Successor(label, addr, SootAddressDescriptor(callee, 0, 0), "Ijk_Call")>>
    ELSE [i \in 1..Len(resolve[label]) |->
            Successor(label, addr, SootAddressDescriptor(resolve[label][i], 0, 0), "Ijk_Call")]

\* the loop over block.statements[addr.stmt_idx - block.label:], from position p
\* (1-based) on; st is (successors, has_default_exit) before the statement
RECURSIVE ScanStatements(_, _, _, _, _, _, _)
ScanStatements(block, p, addr, function_id, method, resolve, st) ==
    IF p > Len(block.statements) THEN st
    ELSE LET stmt == block.statements[p]
             label == block.label + p - 1
             branch == Successor(label, addr,
                           SootAddressDescriptor(function_id,
                               block_by_label(method, stmt.target).idx, stmt.target),
                           "Ijk_Boring")
             succs == _soot_create_invoke_successors(label, addr, stmt.callee, resolve)
             next == ScanStatements(block, p + 1, addr, function_id, method, resolve, st)
         IN  CASE stmt.kind = "IfStmt" ->
                     ScanStatements(block, p + 1, addr, function_id, method, resolve,
                         [st EXCEPT !.successors = Append(@, branch)])
               [] stmt.kind = "InvokeStmt" ->
                     IF succs # <<>>
                     THEN [successors |-> st.successors \o succs, has_default_exit |-> FALSE]
                     ELSE next
               [] stmt.kind = "GotoStmt" ->
                     [successors |-> Append(st.successors, branch), has_default_exit |-> FALSE]
               [] stmt.kind = "AssignStmt" ->
                     IF stmt.callee # NoInvoke /\ succs # <<>>
                     THEN [successors |-> st.successors \o succs, has_default_exit |-> FALSE]
                     ELSE next
               [] OTHER -> next

\* has_default_exit before the loop: False when next_stmt_id >= last_stmt_id
DefaultExitBeforeScan(block, method) ==
    LET next_stmt_id == block.label + Len(block.statements)
        last_stmt_id == method[Len(method)].label + Len(method[Len(method)].statements) - 1
    IN  ~(next_stmt_id >= last_stmt_id)

\* _soot_get_successors that appends the default exit whatever the scan found
_soot_get_successors_DefaultKept(addr, function_id, block, resolve) ==
    LET method == image[function_id].blocks
        next_stmt_id == block.label + Len(block.statements)
        st == ScanStatements(block, addr.stmt_idx - block.label + 1, addr, function_id,
                  method, resolve,
                  [successors |-> <<>>,
                   has_default_exit |-> DefaultExitBeforeScan(block, method)])
    IN  IF DefaultExitBeforeScan(block, method)
        THEN Append(st.successors,
                 Successor(DefaultStmt, addr,
                     SootAddressDescriptor(function_id,
                         block_by_label(method, next_stmt_id).idx, next_stmt_id),
                     "Ijk_Boring"))
        ELSE st.successors

_soot_get_successors(addr, function_id, block, resolve) ==
    LET method == image[function_id].blocks
        next_stmt_id == block.label + Len(block.statements)
        st == ScanStatements(block, addr.stmt_idx - block.label + 1, addr, function_id,
                  method, resolve,
                  [successors |-> <<>>,
                   has_default_exit |-> DefaultExitBeforeScan(block, method)])
    IN  IF st.has_default_exit
        THEN Append(st.successors,
                 Successor(DefaultStmt, addr,
                     SootAddressDescriptor(function_id,
                         block_by_label(method, next_stmt_id).idx, next_stmt_id),
                     "Ijk_Boring"))
        ELSE st.successors

\* the loop of _soot_block_size from position p on: the statements up to and
\* including the first invoke, goto or assignment of an invoke
RECURSIVE CountStatements(_, _)
CountStatements(stmts, p) ==
    IF p > Len(stmts) THEN 0
    ELSE IF stmts[p].kind \in {"InvokeStmt", "GotoStmt"} \/ IsInvoke(stmts[p]) THEN 1
    ELSE 1 + CountStatements(stmts, p + 1)

_soot_block_size(soot_block, start_stmt_idx) ==
    IF soot_block = NoBlock THEN 0
    ELSE CountStatements(soot_block.statements, start_stmt_idx - soot_block.label + 1)

-----------------------------------------------------------------------------
(* Jobs, graph and knowledge base. *)

CFGJob(addr, func_addr, jumpkind, src_node, src_ins_addr, src_stmt_idx, func_edges) ==
    [addr |-> addr, func_addr |-> func_addr, jumpkind |-> jumpkind,
     src_node |-> src_node, src_ins_addr |-> src_ins_addr,
     src_stmt_idx |-> src_stmt_idx, func_edges |-> func_edges]

CFGNode(addr, size, function_address) ==
    [addr |-> addr, size |-> size, function_address |-> function_address]

NoNode == CFGNode(NoAddr, 0, None)

\* get_any_node(addr): the node of the graph at an address, or None
get_any_node(g, addr) ==
    IF \E n \in g : n.addr = addr THEN CHOOSE n \in g : n.addr = addr ELSE NoNode

\* graph.add_node / graph.add_edge: a node equal to one of the graph (the same
\* address) is not added again, the node of the graph is kept
GraphAddNode(g, cfg_node) ==
    IF \E n \in g : n.addr = cfg_node.addr THEN g ELSE g \cup {cfg_node}

_graph_add_edge(e, cfg_node, src_node, src_jumpkind, src_stmt_idx) ==
    IF src_node = NoAddr THEN e
    ELSE e \cup {[src |-> src_node, dst |-> cfg_node.addr,
                  jumpkind |-> src_jumpkind, stmt_idx |-> src_stmt_idx]}

\* a method descriptor as a key of the function table, where the address of a
\* block is a key too: it is equal to no address
MethodKey(m) == SootAddressDescriptor(m, NoLabel, NoLabel)

\* _function_add_node: the function is created the first time a block is
\* attributed to it
_function_add_node(f, cfg_node, function_addr) ==
    [a \in DOMAIN f \cup {MethodKey(function_addr)} |->
        (IF a \in DOMAIN f THEN f[a] ELSE {})
        \cup (IF a = MethodKey(function_addr) THEN {cfg_node.addr} ELSE {})]

\* cfg_job.apply_function_edges: the edges a job carries are realised in the
\* knowledge base when the snippet of the target can be built
apply_function_edges(fe, cfg_job) ==
    IF LiftFails(cfg_job.addr) THEN fe ELSE fe \cup cfg_job.func_edges

\* the queue of the analysis: _insert_job for each job of a list
RECURSIVE InsertJobs(_, _)
InsertJobs(q, entries) ==
    IF entries = <<>> THEN q
    ELSE InsertJobs(q (+) SetToBag({Head(entries)}), Tail(entries))

-----------------------------------------------------------------------------
(* One job: _scan_soot_block. *)

\* what _generate_cfgnode returns; on SimMemoryError/SimEngineError all None
_generate_cfgnode(cfg_job, current_function_addr, table) ==
    LET addr == cfg_job.addr IN
    IF \E n \in table : n.addr = addr
    THEN [addr |-> addr, function_addr |-> current_function_addr,
          cfg_node |-> CHOOSE n \in table : n.addr = addr,
          soot_block |-> NoBlock, lifted |-> FALSE]
    ELSE IF LiftFails(addr)
    THEN [addr |-> NoAddr, function_addr |-> None, cfg_node |-> NoNode,
          soot_block |-> NoBlock, lifted |-> TRUE]
    ELSE [addr |-> addr, function_addr |-> current_function_addr,
          cfg_node |-> CFGNode(addr, _soot_block_size(Lift(addr), addr.stmt_idx),
                               current_function_addr),
          soot_block |-> Lift(addr), lifted |-> TRUE]

FunctionTransitionEdge(cfg_node, target_addr, src_func, to_outside, dst_func, stmt_idx) ==
    [kind |-> "transition", src_node |-> cfg_node.addr, dst_addr |-> target_addr,
     src_func |-> src_func, to_outside |-> to_outside, dst_func |-> dst_func,
     stmt_idx |-> stmt_idx]

FunctionCallEdge(cfg_node, target_addr, src_func, dst_func, stmt_idx) ==
    [kind |-> "call", src_node |-> cfg_node.addr, dst_addr |-> target_addr,
     src_func |-> src_func, to_outside |-> FALSE, dst_func |-> dst_func,
     stmt_idx |-> stmt_idx]

\* _create_job_call: the job that follows a call edge into the callee
_create_job_call(addr, cfg_node, stmt_idx, stmt_addr, current_function_addr, target_addr, jumpkind) ==
    <<CFGJob(target_addr, target_addr.method, jumpkind, cfg_node.addr, stmt_addr, stmt_idx,
             {FunctionCallEdge(cfg_node, target_addr, current_function_addr,
                               target_addr.method, stmt_idx)})>>

\* jumpkind.startswith("Ijk_Sys")
SysKinds == {"Ijk_Sys_syscall", "Ijk_Sys_int128"}

\* _create_jobs that takes every target to be in the current function
_create_jobs_Current(target, jumpkind, current_function_addr, addr, cfg_node, stmt_addr, stmt_idx, traced_addresses, g) ==
    IF target = NoAddr \/ jumpkind \notin {"Ijk_Boring", "Ijk_InvalICache", "Ijk_Call"} \cup SysKinds
    THEN <<>>
    ELSE IF jumpkind \in {"Ijk_Boring", "Ijk_InvalICache"}
    THEN <<CFGJob(target, current_function_addr, jumpkind, cfg_node.addr, stmt_addr, stmt_idx,
                  {FunctionTransitionEdge(cfg_node, target, current_function_addr,
                                          FALSE, current_function_addr, stmt_idx)})>>
    ELSE _create_job_call(addr, cfg_node, stmt_idx, stmt_addr, current_function_addr,
                          target, jumpkind)

\* the jobs of one successor; a successor without a target gives none
_create_jobs(target, jumpkind, current_function_addr, addr, cfg_node, stmt_addr, stmt_idx, traced_addresses, g) ==
    IF target = NoAddr THEN <<>>
    ELSE IF jumpkind \in {"Ijk_Boring", "Ijk_InvalICache"}
    THEN LET node == get_any_node(g, target)
             target_func_addr ==
                 IF target \in traced_addresses /\ node # NoNode
                 THEN node.function_address
                 ELSE current_function_addr
             to_outside == ~(target_func_addr = current_function_addr)
         IN  <<CFGJob(target, target_func_addr, jumpkind, cfg_node.addr, stmt_addr, stmt_idx,
                      {FunctionTransitionEdge(cfg_node, target, current_function_addr,
                                              to_outside, target_func_addr, stmt_idx)})>>
    ELSE IF jumpkind = "Ijk_Call" \/ jumpkind \in SysKinds
    THEN _create_job_call(addr, cfg_node, stmt_idx, stmt_addr, current_function_addr,
                          target, jumpkind)
    ELSE <<>>

\* entries += _create_jobs(...) for each successor
RECURSIVE CreateAllJobs(_, _, _, _, _, _)
CreateAllJobs(successors, function_addr, addr, cfg_node, traced_addresses, g) ==
    IF successors = <<>> THEN <<>>
    ELSE LET suc == Head(successors) IN
         _create_jobs(suc.target, suc.jumpkind, function_addr, addr, cfg_node,
                      suc.stmt_addr, suc.stmt_idx, traced_addresses, g)
         \o CreateAllJobs(Tail(successors), function_addr, addr, cfg_node,
                          traced_addresses, g)

\* self._traced_addresses.add(real_addr)
MarkTraced_Forget(traced_addresses, real_addr) == traced_addresses

\* self._traced_addresses = {real_addr}
MarkTraced_Only(traced_addresses, real_addr) == {real_addr}

MarkTraced(traced_addresses, real_addr) == traced_addresses \cup {real_addr}

\* if real_addr in self._traced_addresses: return []
AlreadyTraced_Never(traced_addresses, real_addr) == FALSE

AlreadyTraced(traced_addresses, real_addr) == real_addr \in traced_addresses

\* _scan_soot_block up to the check of the node: the function edges of the job
\* are applied, and nothing else changes when the node is None
Skipped(cfg_job, r) ==
    [entries |-> <<>>, traced |-> traced, gnodes |-> gnodes,
     gedges |-> gedges, functions |-> functions,
     fedges |-> apply_function_edges(fedges, cfg_job),
     returning |-> returning, scanned |-> FALSE, lifted |-> r.lifted,
     successors |-> <<>>]

\* _scan_soot_block up to the check of the traced addresses: the node is in the
\* graph with the edge of the job, and in the function of the job
Attached(cfg_job, r) ==
    [Skipped(cfg_job, r) EXCEPT
        !.gnodes = GraphAddNode(gnodes, r.cfg_node),
        !.gedges = _graph_add_edge(gedges, r.cfg_node, cfg_job.src_node,
                                   cfg_job.jumpkind, cfg_job.src_stmt_idx),
        !.functions = _function_add_node(functions, r.cfg_node, r.function_addr)]

\* _create_jobs records the method of every call target with
\* _add_returning_function
_add_returning_function(returning_functions, successors) ==
    returning_functions \cup
        {successors[i].target.method :
            i \in {j \in DOMAIN successors : successors[j].jumpkind = "Ijk_Call"}}

\* _scan_soot_block to its end: the address is traced and the successors of the
\* block become jobs
Expanded(cfg_job, r, current_func_addr, resolve) ==
    LET tr == MarkTraced(traced, r.addr)
        successors == _soot_get_successors(r.addr, current_func_addr, r.soot_block, resolve)
    IN  [Attached(cfg_job, r) EXCEPT
            !.traced = tr,
            !.scanned = TRUE,
            !.successors = successors,
            !.entries = CreateAllJobs(successors, r.function_addr, r.addr,
                                      r.cfg_node, tr, GraphAddNode(gnodes, r.cfg_node)),
            !.returning = _add_returning_function(returning, successors)]

\* _scan_soot_block that adds the node to the graph before it checks it
_scan_soot_block_Unchecked(cfg_job, current_func_addr, resolve) ==
    LET r == _generate_cfgnode(cfg_job, current_func_addr, nodes)
    IN  IF r.cfg_node = NoNode \/ AlreadyTraced(traced, r.addr) THEN Attached(cfg_job, r)
        ELSE Expanded(cfg_job, r, current_func_addr, resolve)

\* _scan_soot_block that checks the traced addresses before it adds the edge
_scan_soot_block_TracedFirst(cfg_job, current_func_addr, resolve) ==
    LET r == _generate_cfgnode(cfg_job, current_func_addr, nodes)
    IN  IF r.cfg_node = NoNode \/ AlreadyTraced(traced, r.addr) THEN Skipped(cfg_job, r)
        ELSE Expanded(cfg_job, r, current_func_addr, resolve)

\* the state after _scan_soot_block(cfg_job, current_func_addr) and the entries
\* it returns; resolve holds the answers of the dispatch resolver
_scan_soot_block(cfg_job, current_func_addr, resolve) ==
    LET r == _generate_cfgnode(cfg_job, current_func_addr, nodes)
    IN  IF r.cfg_node = NoNode THEN Skipped(cfg_job, r)
        ELSE IF AlreadyTraced(traced, r.addr) THEN Attached(cfg_job, r)
        ELSE Expanded(cfg_job, r, current_func_addr, resolve)

\* _addr_hooked_or_syscall(addr): the project has a hook at the address
_addr_hooked_or_syscall(addr) == addr \in hooked

\* _scan_procedure: a node for the procedure is put in the graph with the edge
\* of the job and in the function of the job, and the address is traced; no
\* block is lifted and no statement is scanned
_scan_procedure(cfg_job, current_func_addr) ==
    LET r == [addr |-> cfg_job.addr, function_addr |-> current_func_addr,
              cfg_node |-> CFGNode(cfg_job.addr, 0, current_func_addr),
              soot_block |-> NoBlock, lifted |-> FALSE]
    IN  [Attached(cfg_job, r) EXCEPT
            !.fedges = fedges \cup cfg_job.func_edges,
            !.traced = MarkTraced(traced, cfg_job.addr)]

\* _scan_block that takes every address for the address of a block
_scan_block_Unhooked(cfg_job, resolve) ==
    _scan_soot_block(cfg_job, cfg_job.func_addr, resolve)

\* _scan_block(cfg_job): a procedure at a hooked address, a block elsewhere
_scan_block(cfg_job, resolve) ==
    IF _addr_hooked_or_syscall(cfg_job.addr)
    THEN _scan_procedure(cfg_job, cfg_job.func_addr)
    ELSE _scan_soot_block(cfg_job, cfg_job.func_addr, resolve)

-----------------------------------------------------------------------------
(* The analysis. *)

EmptyFunctions == [a \in {} |-> {}]

TraversalKinds == StmtKinds \ {"AssignStmt"}

\* the program images of at most MaxStmts statements: methods A and B, each
\* present or not; the entry method and the first method of the image are A
Images ==
    UNION {UNION {{[m \in Universe |-> IF m = "A" THEN a ELSE IF m = "B" THEN b ELSE Absent] :
                      a \in MethodImages(na, TraversalKinds, {"A", "B"}),
                      b \in MethodImages(nb, TraversalKinds, {"A", "B"})}
                  : nb \in 0..(MaxStmts - na)}
           : na \in 0..MaxStmts}

NoScan == [phase |-> "none"]

NoJobs == [phase |-> "none"]

\* the addresses a hook may stand at: the first statement of a method that a
\* statement of the image calls
Hookable ==
    {SootAddressDescriptor(st.callee, 0, 0) :
        st \in {x \in UNION {Range(b.statements) : b \in UNION {Range(image[m].blocks) : m \in Universe}} :
                   x.callee # NoInvoke}}

\* make_functions has not run: no seed, no walk
NoPartition ==
    [seeds |-> {}, walks |-> 0, traversed |-> {}, stage1 |-> EmptyFunctions, roots |-> {}]

Init ==
    /\ image \in {im \in Images : im["A"].present \/ ~im["B"].present}
    /\ entry \in (IF image["A"].present THEN {"A", None} ELSE {None})
    /\ hooked \in {{}} \cup {{h} : h \in Hookable}
    /\ pc = "init"
    /\ jobs = EmptyBag
    /\ traced = {}
    /\ nodes = {}
    /\ gnodes = {}
    /\ gedges = {}
    /\ functions = EmptyFunctions
    /\ fedges = {}
    /\ returning = {}
    /\ scans = EmptyBag
    /\ lifts = EmptyBag
    /\ inserted = 0
    /\ processed = 0
    /\ blockaddr_to_function = EmptyFunctions
    /\ runs = 0
    /\ pop_policy = "none"
    /\ partition = NoPartition
    /\ made = NoJobs
    /\ scan = NoScan

\* the seeds of _pre_analysis: the entry method, then every method of every class
SeedJob(method_des, block_idx) ==
    CFGJob(SootAddressDescriptor(method_des, block_idx, 0), method_des, "Ijk_Boring",
           NoAddr, NoAddr, NoLabel, {})

\* if method_inst.blocks: self._insert_job(...)
EntrySeeds_Always(entry_func) == SetToBag({SeedJob(entry_func, 0)})

EntrySeeds(entry_func) ==
    IF image[entry_func].blocks # <<>>
    THEN SetToBag({SeedJob(entry_func, image[entry_func].blocks[1].idx)})
    ELSE EmptyBag

\* the seed of a method built from the label of its last block
MethodSeed_LastLabel(m) == SeedJob(m, image[m].blocks[Len(image[m].blocks)].label)

MethodSeed(m) == SeedJob(m, image[m].blocks[1].label)

\* for cls in classes: for method in cls.methods: if method.blocks: _insert_job
RECURSIVE SeedAll(_)
SeedAll(S) ==
    IF S = {} THEN EmptyBag
    ELSE LET m == CHOOSE x \in S : TRUE
         IN  SetToBag({MethodSeed(m)}) (+) SeedAll(S \ {m})

\* no method is a seed but the entry method
MethodSeeds_None == EmptyBag

MethodSeeds == SeedAll({m \in Present : image[m].blocks # <<>>})

\* next(obj.main_methods), else the first method of the first class
MainOrFirstMethod == "A"

\* _pre_analysis: an unknown entry method is replaced by a main method or by
\* the first method of a class; with no method at all AngrCFGError is raised
PreAnalysis ==
    /\ pc = "init"
    /\ \/ /\ entry = None
          /\ Present = {}
          /\ pc' = "error"
          /\ jobs' = jobs
          /\ inserted' = 0
       \/ \E entry_func \in {MainOrFirstMethod} \cap Present :
             /\ entry \in {None, entry_func}
             /\ pc' = "scan"
             /\ jobs' = EntrySeeds(entry_func) (+) MethodSeeds
             /\ inserted' = BagCardinality(jobs')
    /\ traced' = {}
    /\ nodes' = {}
    /\ UNCHANGED <<image, entry, gnodes, gedges, functions, fedges, returning,
                   scans, lifts, processed, scan, blockaddr_to_function, runs, pop_policy, partition, hooked, made>>

\* PendingJobs.pop_job(returning): the ways to remove one job from the pending
\* jobs, each with the job, the jobs left and the policy it was popped with
pop_job(pending, policy) ==
    {[job |-> j, rest |-> pending (-) SetToBag({j}),
      policy |-> IF policy THEN "returning" ELSE "not_returning"] :
        j \in BagToSet(pending)}

\* _pop_pending_job that leaves the popped job among the pending jobs
_pop_pending_job_Peek(pending, arg_returning) ==
    {[p EXCEPT !.rest = pending] : p \in pop_job(pending, TRUE)}

\* _pop_pending_job that passes its argument on
_pop_pending_job_AsAsked(pending, arg_returning) ==
    pop_job(pending, arg_returning)

\* _pop_pending_job(returning): all functions are assumed to return
_pop_pending_job(pending, arg_returning) ==
    pop_job(pending, TRUE)

\* one turn of the job loop: pop a job, _scan_block, insert the entries
ProcessJob ==
    /\ pc = "scan"
    /\ \E arg_returning \in BOOLEAN :
       \E popped \in _pop_pending_job(jobs, arg_returning) :
       \E cfg_job \in {popped.job} :
         \E resolve \in (IF LiftFails(cfg_job.addr) \/ AlreadyTraced(traced, cfg_job.addr)
                         THEN {<<>>}
                         ELSE Resolutions(Lift(cfg_job.addr), cfg_job.addr.stmt_idx)) :
            \E out \in {_scan_block(cfg_job, resolve)} :
                /\ jobs' = InsertJobs(popped.rest, out.entries)
                /\ pop_policy' = popped.policy
                /\ traced' = out.traced
                /\ gnodes' = out.gnodes
                /\ gedges' = out.gedges
                /\ functions' = out.functions
                /\ fedges' = out.fedges
                /\ returning' = out.returning
                /\ scans' = IF out.scanned THEN scans (+) SetToBag({cfg_job.addr}) ELSE scans
                /\ lifts' = IF out.lifted THEN lifts (+) SetToBag({cfg_job.addr}) ELSE lifts
                /\ inserted' = inserted + Len(out.entries)
                /\ processed' = processed + 1
    /\ UNCHANGED <<image, entry, pc, nodes, scan, blockaddr_to_function, runs, partition,
                   hooked, made>>

\* the job loop ends when no job is left
Finish ==
    /\ pc = "scan"
    /\ jobs = EmptyBag
    /\ pc' = "done"
    /\ UNCHANGED <<image, entry, jobs, traced, nodes, gnodes, gedges, functions,
                   fedges, returning, scans, lifts, inserted, processed, scan,
                   blockaddr_to_function, runs, pop_policy, partition, hooked, made>>

\* _loc_to_funcloc(location)
_loc_to_funcloc(location) ==
    IF location.block_idx # NoLabel THEN MethodKey(location.method) ELSE location

\* the orders a set can be iterated in
Orders(S) ==
    {o \in [1..Cardinality(S) -> S] : \A i, j \in DOMAIN o : i # j => o[i] # o[j]}

IsCallEdge(e) == e.jumpkind = "Ijk_Call"

\* self._binary.entry
BinaryEntry == SootAddressDescriptor(entry, 0, 0)

\* function_nodes that holds the targets of call edges only
function_nodes_CallsOnly(tmp_functions) ==
    {e.dst : e \in {x \in gedges : IsCallEdge(x)}}

\* the addresses of the nodes the functions begin at: the targets of call edges,
\* the entry, and the nodes of the functions known before
function_nodes(tmp_functions) ==
    {e.dst : e \in {x \in gedges : IsCallEdge(x)}}
    \cup {n.addr : n \in {x \in gnodes : x = get_any_node(gnodes, BinaryEntry)}}
    \cup {n.addr : n \in {x \in gnodes : _loc_to_funcloc(x.addr) \in DOMAIN tmp_functions}}

\* the addresses reached from frontier along edges that are not calls, without
\* going on from the nodes of stop
RECURSIVE Reachable(_, _, _)
Reachable(frontier, seen, stop) ==
    LET next == {e.dst : e \in {x \in gedges : x.src \in frontier /\ ~IsCallEdge(x)}}
                \ (seen \cup stop)
    IN  IF next = {} THEN seen ELSE Reachable(next, seen \cup next, stop)

\* _graph_bfs_custom from one node with _graph_traversal_handler: the nodes
\* reached that no function has claimed go to the function of the start node;
\* st is (blockaddr_to_function, traversed_cfg_nodes), shared says whether the
\* traversed nodes are passed in
_graph_bfs_custom(st, fn, shared) ==
    LET traversed == IF shared THEN st.traversed ELSE {}
        reached == Reachable({fn}, {fn}, traversed)
        f == IF fn \in DOMAIN st.b2f THEN st.b2f[fn] ELSE fn
    IN  IF fn \in traversed THEN st
        ELSE [b2f |-> [a \in DOMAIN st.b2f \cup reached |->
                          IF a \in DOMAIN st.b2f THEN st.b2f[a] ELSE f],
              traversed |-> IF shared THEN traversed \cup reached ELSE st.traversed]

\* for i, fn in enumerate(function_nodes): self._graph_bfs_custom(...)
RECURSIVE Traverse(_, _, _)
Traverse(order, st, shared) ==
    IF order = <<>> THEN st
    ELSE Traverse(Tail(order), _graph_bfs_custom(st, Head(order), shared), shared)

\* secondary_function_nodes that holds every node of the graph
secondary_function_nodes_All(tmp_functions, st) ==
    {n.addr : n \in gnodes}

\* the function chunks no call reaches, and the nodes the first traversal missed
secondary_function_nodes(tmp_functions, st) ==
    {n.addr : n \in {x \in gnodes : /\ x.addr \in DOMAIN tmp_functions
                                     /\ x.addr \notin DOMAIN st.b2f}}
    \cup {n.addr : n \in {x \in gnodes : /\ x.addr \notin st.traversed
                                          /\ x.function_address # None}}

\* the function table the traversals leave: a function for each address a block
\* was attributed to, with its blocks
FunctionsOf(b2f) ==
    [f \in {b2f[a] : a \in DOMAIN b2f} |-> {a \in DOMAIN b2f : b2f[a] = f}]

\* remove empty functions: those whose startpoint is None
RemoveEmpty_Small(f) == [a \in {k \in DOMAIN f : f[k] # {k}} |-> f[a]]

RemoveEmpty(f) == [a \in {k \in DOMAIN f : k \in f[k]} |-> f[a]]

\* for node in self._nodes.values(): node.function_address = ...
UpdateNodes(table, b2f) ==
    {IF n.addr \in DOMAIN b2f THEN [n EXCEPT !.function_address = b2f[n.addr].method]
     ELSE n : n \in table}

\* make_functions on the finished graph; a set is iterated in any order
MakeFunctions ==
    /\ pc = "done"
    /\ runs < MaxRuns
    /\ LET tmp_functions == functions
       IN  \E order \in Orders(function_nodes(tmp_functions)) :
              \E first \in {Traverse(order, [b2f |-> EmptyFunctions, traversed |-> {}], TRUE)} :
                  \E chunks \in Orders(secondary_function_nodes(tmp_functions, first)) :
                     \E second \in {Traverse(chunks, first, FALSE)} :
                         /\ blockaddr_to_function' = second.b2f
                         /\ functions' = RemoveEmpty(FunctionsOf(second.b2f))
                         /\ nodes' = UpdateNodes(nodes, second.b2f)
                         /\ partition' = [seeds |-> function_nodes(tmp_functions),
                                          walks |-> Len(order),
                                          traversed |-> first.traversed,
                                          stage1 |-> first.b2f,
                                          roots |-> secondary_function_nodes(tmp_functions, first)]
    /\ runs' = runs + 1
    /\ UNCHANGED <<image, entry, pc, jobs, traced, gnodes, gedges, fedges, returning,
                   scans, lifts, inserted, processed, scan, pop_policy, hooked, made>>

Next == PreAnalysis \/ ProcessJob \/ Finish \/ MakeFunctions

Spec == Init /\ [][Next]_vars

-----------------------------------------------------------------------------
(* One scan of one block on its own: _soot_get_successors and _soot_block_size *)
(* as functions of the method, the block, the statement to resume at and the  *)
(* answers of the dispatch resolver.                                          *)

OtherStmt == [kind |-> "Other", target |-> NoLabel, callee |-> NoInvoke]

\* the methods of MaxStmts + 1 statements at most in which one block, the one to
\* scan, holds any statements (the scan reads the labels and lengths of the
\* other blocks, not their statements)
ScanBodies ==
    UNION {UNION {UNION {
        {MakeBlocks(lay, [q \in 1..n |->
                             IF q > LabelAt(lay, i) /\ q <= LabelAt(lay, i) + lay[i]
                             THEN f[q - LabelAt(lay, i)] ELSE OtherStmt]) :
            f \in [1..lay[i] -> StmtsOver(StmtKinds, Labels(lay), {"B"})]}
        : i \in 1..Len(lay)} : lay \in Layouts(n)} : n \in 1..(MaxStmts + 1)}

Concrete == [present |-> TRUE, blocks |-> MakeBlocks(<<1>>, <<OtherStmt>>)]
Abstract == [present |-> TRUE, blocks |-> <<>>]

ScanImages ==
    {[m \in Universe |-> IF m = "A" THEN [present |-> TRUE, blocks |-> a]
                         ELSE IF m = "B" THEN b ELSE c] :
        a \in ScanBodies, b \in {Absent, Abstract, Concrete}, c \in {Absent, Concrete}}

ScanInit ==
    /\ image \in ScanImages
    /\ \E b \in Range(image["A"].blocks) :
         \E stmt_idx \in b.label..(b.label + Len(b.statements) - 1) :
            scan = [phase |-> "input",
                    addr |-> SootAddressDescriptor("A", b.idx, stmt_idx),
                    resolve |-> <<>>, successors |-> <<>>, size |-> 0]
    /\ entry = "A"
    /\ hooked = {}
    /\ pc = "scan_block"
    /\ jobs = EmptyBag
    /\ traced = {}
    /\ nodes = {}
    /\ gnodes = {}
    /\ gedges = {}
    /\ functions = EmptyFunctions
    /\ fedges = {}
    /\ returning = {}
    /\ scans = EmptyBag
    /\ lifts = EmptyBag
    /\ inserted = 0
    /\ processed = 0
    /\ blockaddr_to_function = EmptyFunctions
    /\ runs = 0
    /\ pop_policy = "none"
    /\ partition = NoPartition
    /\ made = NoJobs

ScanBlock ==
    /\ scan.phase = "input"
    /\ \E resolve \in Resolutions(Lift(scan.addr), scan.addr.stmt_idx) :
         scan' = [phase |-> "scanned",
                  addr |-> scan.addr,
                  resolve |-> resolve,
                  successors |-> _soot_get_successors(scan.addr, scan.addr.method,
                                                      Lift(scan.addr), resolve),
                  size |-> _soot_block_size(Lift(scan.addr), scan.addr.stmt_idx)]
    /\ UNCHANGED <<image, entry, pc, jobs, traced, nodes, gnodes, gedges, functions,
                   fedges, returning, scans, lifts, inserted, processed,
                   blockaddr_to_function, runs, pop_policy, partition, hooked, made>>

ScanNext == ScanBlock

SpecScan == ScanInit /\ [][ScanNext]_vars

\* the job loop under weak fairness: the loop takes its next turn while it can
FairSpec == Init /\ [][Next]_vars /\ WF_vars(Next)

-----------------------------------------------------------------------------
(* The jobs of a list of successors on their own: the loop of _scan_soot_block *)
(* over the successors and _create_jobs, as functions of the successors, the   *)
(* current function, the traced addresses and the nodes of the graph.          *)

JobTargets == {SootAddressDescriptor("A", 0, 0), SootAddressDescriptor("B", 0, 0), NoAddr}

JobKinds == {"Ijk_Boring", "Ijk_Call", "Ijk_Ret", "Ijk_Exit"}

\* the lists of at most MaxSuccs successors of the block at addr
SuccessorLists(addr) ==
    UNION {{[i \in 1..k |-> Successor(i - 1, addr, c[i][1], c[i][2])] :
               c \in [1..k -> JobTargets \X JobKinds]}
           : k \in 1..MaxSuccs}

\* the graphs with at most one node at each target, in function A or B
JobGraphs ==
    {UNION {g[t] : t \in JobTargets \ {NoAddr}} :
        g \in [JobTargets \ {NoAddr} ->
                 {{}} \cup {{CFGNode(a, 1, f)} : a \in JobTargets \ {NoAddr}, f \in {"A", "B"}}]}

JobsInit ==
    /\ image = [m \in Universe |-> Absent]
    /\ entry = "A"
    /\ hooked = {}
    /\ pc = "create_jobs"
    /\ jobs = EmptyBag
    /\ traced \in SUBSET (JobTargets \ {NoAddr})
    /\ nodes = {}
    /\ gnodes \in {g \in JobGraphs : \A n, m \in g : n.addr = m.addr => n = m}
    /\ gedges = {}
    /\ functions = EmptyFunctions
    /\ fedges = {}
    /\ returning = {}
    /\ scans = EmptyBag
    /\ lifts = EmptyBag
    /\ inserted = 0
    /\ processed = 0
    /\ blockaddr_to_function = EmptyFunctions
    /\ runs = 0
    /\ pop_policy = "none"
    /\ partition = NoPartition
    /\ scan = NoScan
    /\ \E function_addr \in {"A", "B"} :
          \E successors \in SuccessorLists(SootAddressDescriptor(function_addr, 0, 0)) :
             made = [phase |-> "input", function_addr |-> function_addr,
                     successors |-> successors, entries |-> <<>>]

\* for suc in successors: entries += self._create_jobs(...)
CreateJobs ==
    /\ made.phase = "input"
    /\ LET addr == SootAddressDescriptor(made.function_addr, 0, 0)
       IN  made' = [made EXCEPT
                      !.phase = "made",
                      !.entries = CreateAllJobs(made.successors, made.function_addr, addr,
                                                CFGNode(addr, 1, made.function_addr),
                                                traced, gnodes)]
    /\ UNCHANGED <<image, entry, pc, jobs, traced, nodes, gnodes, gedges, functions,
                   fedges, returning, scans, lifts, inserted, processed, scan,
                   blockaddr_to_function, runs, pop_policy, partition, hooked>>

JobsNext == CreateJobs

SpecJobs == JobsInit /\ [][JobsNext]_vars

-----------------------------------------------------------------------------
(* Properties of the traversal. *)

One(x) == SetToBag({x})

\* a turn of the job loop that asked the IR adapter for the block at address a
Lifting(a) == pc = "scan" /\ processed' = processed + 1 /\ lifts' = lifts (+) One(a)

C2_ExpandOnce ==
    [][/\ \A a \in BagToSet(scans') :
            /\ CopiesIn(a, scans') <= 1
            /\ CopiesIn(a, scans') # CopiesIn(a, scans) => a \notin traced
       /\ \A a \in traced : Lifting(a) => scans' = scans /\ inserted' = inserted
      ]_vars

\* a second job for an address already expanded has been processed
C2_Witness ==
    \E a \in traced : CopiesIn(a, lifts) >= 2 /\ CopiesIn(a, scans) = 1

\* C3: the job loop terminates: each turn either traces a new address or leaves
\* the traced addresses alone and the queue one job shorter, and in the end the
\* queue is empty for good.
C3_Terminates ==
    /\ [][pc = "scan" /\ processed' = processed + 1 =>
            \/ traced \subseteq traced' /\ traced' # traced
            \/ traced' = traced /\ BagCardinality(jobs') = BagCardinality(jobs) - 1]_vars
    /\ <>[](pc \in {"done", "error"} /\ jobs = EmptyBag)

\* the loop has ended after expanding addresses and meeting traced ones again
C3_Witness ==
    pc = "done" /\ traced # {} /\ \E a \in traced : CopiesIn(a, lifts) >= 2

JobEdge(j) ==
    [src |-> j.src_node, dst |-> j.addr, jumpkind |-> j.jumpkind, stmt_idx |-> j.src_stmt_idx]

\* C9: a job for an address already traced adds its incoming edge and attributes
\* the node to the job's function, and expands nothing: no successors are
\* computed, no job is inserted, no node is added.
C9_RetracedJobAddsEdge ==
    [][\A a \in traced :
          Lifting(a) =>
             \E j \in BagToSet(jobs) :
                /\ j.addr = a
                /\ jobs' = jobs (-) One(j)
                /\ j.src_node # NoAddr => JobEdge(j) \in gedges'
                /\ gedges' \subseteq gedges \cup {JobEdge(j)}
                /\ MethodKey(j.func_addr) \in DOMAIN functions'
                /\ a \in functions'[MethodKey(j.func_addr)]
                /\ scans' = scans /\ inserted' = inserted
                /\ gnodes' = gnodes /\ traced' = traced
      ]_vars

\* in the final graph a node has incoming edges from two different nodes
C9_Witness ==
    /\ pc = "done"
    /\ \E e1, e2 \in gedges :
          /\ e1.dst = e2.dst /\ e1.src # e2.src
          /\ e1.dst \in traced /\ CopiesIn(e1.dst, scans) = 1

\* C10: make_functions run again on the unchanged graph leaves the assignment of
\* blocks to functions and the function table as its last run left them.
C10_MakeFunctionsIdempotent ==
    [][pc = "done" /\ runs >= 1 /\ runs' = runs + 1 =>
          /\ blockaddr_to_function' = blockaddr_to_function
          /\ functions' = functions]_vars

C17_JobsProcessedOnce ==
    /\ [][processed' # processed =>
            /\ processed' = processed + 1
            /\ BagCardinality(jobs') = BagCardinality(jobs) - 1 + (inserted' - inserted)
            /\ \E j \in BagToSet(jobs) :
                  \A k \in BagToSet(jobs) :
                     CopiesIn(k, jobs') >= CopiesIn(k, jobs) - (IF k = j THEN 1 ELSE 0)]_vars
    /\ [](inserted = processed + BagCardinality(jobs))
    /\ [](pc = "done" => jobs = EmptyBag /\ processed = inserted)

C17_Witness ==
    /\ pc = "done"
    /\ processed = inserted
    /\ processed >= 4
    /\ \E a \in BagToSet(lifts) : CopiesIn(a, lifts) >= 2

\* C18: a job for an address that is already registered reuses the CFGNode of
\* the address and lifts nothing: no address is lifted more than once in a run.
C18_LiftedAtMostOnce ==
    \A a \in BagToSet(lifts) : CopiesIn(a, lifts) <= 1

\* C19: all callees are assumed to return: a job is always popped with the
\* returning policy whatever the argument of the pop is, the method of every
\* call target that became a job is recorded as a returning function, and no
\* job is left deferred when the traversal ends.
C19_AllCalleesReturn ==
    /\ pop_policy \in {"none", "returning"}
    /\ \A j \in BagToSet(jobs) : j.jumpkind = "Ijk_Call" => j.addr.method \in returning
    /\ \A e \in gedges : IsCallEdge(e) => e.dst.method \in returning
    /\ pc = "done" => jobs = EmptyBag

C19_Witness ==
    /\ pc = "done"
    /\ pop_policy = "returning"
    /\ \E e \in gedges : IsCallEdge(e) /\ e.dst.method \in returning

\* C20: during the traversal the traced addresses, the nodes of the graph and
\* its edges only grow, and a run of make_functions adds and removes no node
\* and no edge.
C20_GraphOnlyGrows ==
    [][/\ pc = "scan" => traced \subseteq traced' /\ gnodes \subseteq gnodes' /\ gedges \subseteq gedges'
       /\ runs' # runs => gnodes' = gnodes /\ gedges' = gedges]_vars

C20_Witness ==
    /\ runs >= 1
    /\ Cardinality(gnodes) >= 2
    /\ Cardinality(gedges) >= 2
    /\ Cardinality(traced) >= 2

\* C24: a job for a hooked address is handled by making a stub node: the block
\* at the address is never lifted, the statements at the address are never
\* scanned, and the turn of the job loop that takes the job leaves a node at
\* the address in the graph.
C24_HookedAddressIsStub ==
    /\ [](\A a \in hooked : CopiesIn(a, lifts) = 0 /\ CopiesIn(a, scans) = 0)
    /\ [][\A j \in BagToSet(jobs) :
             (j.addr \in hooked /\ processed' = processed + 1 /\ jobs' = jobs (-) One(j))
                => /\ lifts' = lifts
                   /\ scans' = scans
                   /\ \E n \in gnodes' : n.addr = j.addr]_vars

C24_Witness ==
    \E a \in hooked :
       /\ ~LiftFails(a)
       /\ a \in traced
       /\ \E n \in gnodes : n.addr = a
       /\ \E e \in gedges : e.dst = a /\ IsCallEdge(e)
       /\ CopiesIn(a, lifts) = 0

\* the address of the first statement of the first block of a method
FirstBlockAddr(m) == SootAddressDescriptor(m, 0, 0)

WithBody == {m \in Present : image[m].blocks # <<>>}

\* C27: _pre_analysis inserts one job at statement 0 of the first block for
\* every method that has a block, and one more for the entry method if it has
\* a block; a method without a block gets no job. If no lift has failed when
\* the traversal ends, every method with a body has a node in the graph.
C27_EveryMethodSeeded ==
    /\ [][pc = "init" /\ pc' = "scan" =>
             /\ \A m \in WithBody :
                   CopiesIn(SeedJob(m, 0), jobs') = IF m = MainOrFirstMethod THEN 2 ELSE 1
             /\ BagToSet(jobs') = {SeedJob(m, 0) : m \in WithBody}]_vars
    /\ []((pc = "done" /\ \A a \in BagToSet(lifts) : ~LiftFails(a))
             => \A m \in WithBody : \E n \in gnodes : n.addr.method = m)

C27_Witness ==
    /\ pc = "done"
    /\ \A a \in BagToSet(lifts) : ~LiftFails(a)
    /\ hooked = {}
    /\ \E m \in WithBody :
          /\ m # MainOrFirstMethod
          /\ \A e \in gedges : e.dst.method # m \/ e.src.method = m
          /\ \E n \in gnodes : n.addr.method = m
    /\ \E m \in Present : image[m].blocks = <<>>

-----------------------------------------------------------------------------
(* Properties of the functions make_functions leaves. *)

\* the functions that hold the block at an address
FunctionsWith(a) == {f \in DOMAIN functions : a \in functions[f]}

\* C11: after make_functions every node of the graph is a block of exactly one
\* function: of no two functions, and of one at least.
C11_EveryNodeInOneFunction ==
    runs >= 1 => \A n \in gnodes : Cardinality(FunctionsWith(n.addr)) = 1

\* make_functions has run twice on a graph of two nodes joined by an edge, and
\* its second run made a function of each
C11_Witness ==
    /\ runs = 2
    /\ Cardinality(gnodes) = 2 /\ gedges # {}
    /\ Cardinality(DOMAIN functions) = 2

\* the addresses joined to those of S by edges that are not calls, either way
RECURSIVE Joined(_)
Joined(S) ==
    LET more == {e.dst : e \in {x \in gedges : ~IsCallEdge(x) /\ x.src \in S}}
                \cup {e.src : e \in {x \in gedges : ~IsCallEdge(x) /\ x.dst \in S}}
    IN  IF more \subseteq S THEN S ELSE Joined(S \cup more)

\* the weakly connected components of the graph without its call edges
Components == {Joined({n.addr}) : n \in gnodes}

CallReachable(C) == \E e \in gedges : IsCallEdge(e) /\ e.dst \in C

HoldsEntry(C) == BinaryEntry \in C

\* C12: on a graph whose components, call edges ignored, are K components that
\* hold the target of a call, plus the entry point, make_functions leaves K
\* functions, and K + 1 when the entry point is in none of the K components.
C12_FunctionPerComponent ==
    (/\ runs >= 1
     /\ \A C \in Components : CallReachable(C) \/ HoldsEntry(C))
    => Cardinality(DOMAIN functions) =
          Cardinality({C \in Components : CallReachable(C)})
          + (IF \E C \in Components : HoldsEntry(C) /\ ~CallReachable(C) THEN 1 ELSE 0)

NodeAddrs == {n.addr : n \in gnodes}

\* the addresses a path of edges that are not calls leads to from one of S
RECURSIVE NonCallClosure(_)
NonCallClosure(S) ==
    LET more == {e.dst : e \in {x \in gedges : x.jumpkind # "Ijk_Call" /\ x.src \in S}}
    IN  IF more \subseteq S THEN S ELSE NonCallClosure(S \cup more)

\* C21: the seeds of the first stage of make_functions are exactly the nodes a
\* call edge leads to, the node at the entry point if there is one, and the
\* nodes whose method is a key of the function table make_functions found;
\* the stage makes one walk per seed, and the walks share one set of traversed
\* nodes, which ends as all that the seeds reach without a call edge.
C21_StageOneSeeds ==
    [][runs' # runs =>
          /\ partition'.seeds =
                {a \in NodeAddrs : \/ \E e \in gedges : e.jumpkind = "Ijk_Call" /\ e.dst = a
                                   \/ a = BinaryEntry
                                   \/ MethodKey(a.method) \in DOMAIN functions}
          /\ partition'.walks = Cardinality(partition'.seeds)
          /\ partition'.traversed = NonCallClosure(partition'.seeds)
          /\ DOMAIN partition'.stage1 = partition'.traversed]_vars

C21_Witness ==
    /\ runs = 2
    /\ partition.walks = 2
    /\ BinaryEntry \in partition.seeds
    /\ \E e \in gedges : IsCallEdge(e) /\ e.dst \in partition.seeds /\ e.dst # BinaryEntry

\* C22: the roots of the second stage of make_functions are nodes the first
\* stage did not reach, or entry nodes of known functions that no function has
\* claimed yet, and the second stage leaves every node the first stage gave to
\* a function in that function.
C22_StageTwoKeepsStageOne ==
    [][runs' # runs =>
          /\ partition'.roots \subseteq NodeAddrs
          /\ \A a \in partition'.roots :
                \/ a \notin partition'.traversed
                \/ a \in DOMAIN functions /\ a \notin DOMAIN partition'.stage1
          /\ \A a \in DOMAIN partition'.stage1 :
                /\ a \in DOMAIN blockaddr_to_function'
                /\ blockaddr_to_function'[a] = partition'.stage1[a]]_vars

C22_Witness ==
    /\ runs = 2
    /\ partition.roots # {}
    /\ partition.traversed # {}
    /\ \E a \in partition.roots : \E e \in gedges : e.src = a /\ e.dst \in partition.traversed

\* C23: after make_functions no function of the table is without its start
\* point, and the function address a node records is the address of the function
\* the node was given to: two nodes record the same function exactly when they
\* were given to the same function.
C23_NodesRecordFinalFunction ==
    runs >= 1 =>
        /\ \A k \in DOMAIN functions : k \in functions[k]
        /\ \A n, m \in gnodes :
              (n.function_address = m.function_address)
                 <=> (blockaddr_to_function[n.addr] = blockaddr_to_function[m.addr])

-----------------------------------------------------------------------------
(* Properties of one scan. *)

Scanned == scan.phase = "scanned"
ScannedBlock == Lift(scan.addr)
ScannedStmt(l) == ScannedBlock.statements[l - ScannedBlock.label + 1]
LastLabel == ScannedBlock.label + Len(ScannedBlock.statements) - 1
\* the labels of the statements from the one the scan resumes at
Window == scan.addr.stmt_idx..LastLabel

\* the scan reaches the statement labelled l
ScanReaches(l) == Reaches(ScannedBlock, scan.addr.stmt_idx, scan.resolve, l)

\* the statement the scan ends at
LastScanned ==
    ScannedStmt(CHOOSE l \in Window :
                   ScanReaches(l) /\ (l = LastLabel \/ ~ScanReaches(l + 1)))

HasFallthrough == \E i \in DOMAIN scan.successors : scan.successors[i].stmt_idx = DefaultStmt

\* the call successors of the statement labelled l, in order
CallsFrom(l) ==
    SelectSeq(scan.successors, LAMBDA e : e.stmt_idx = l /\ e.jumpkind = "Ijk_Call")

\* C4: a scan that ends at a goto or at a call gives no fallthrough successor.
C4_NoFallthroughAfterTransferOrCall ==
    Scanned /\ (LastScanned.kind = "GotoStmt" \/ IsInvoke(LastScanned)) => ~HasFallthrough

\* C5: a call site whose declared callee has a body gets one call successor per
\* candidate of the dispatch resolver, in the resolver's order, each to
\* (candidate, 0, 0).
C5_CallEdgesMatchCandidates ==
    Scanned =>
        \A l \in Window :
            ScanReaches(l) /\ IsInvoke(ScannedStmt(l))
              /\ ~IsExternal(ScannedStmt(l).callee)
              /\ image[ScannedStmt(l).callee].blocks # <<>> =>
                 CallsFrom(l) =
                    [i \in 1..Len(scan.resolve[l]) |->
                        Successor(l, scan.addr,
                            SootAddressDescriptor(scan.resolve[l][i], 0, 0), "Ijk_Call")]

\* a call site resolved to three candidates
C5_Witness ==
    Scanned /\ \E l \in Window :
        /\ ScanReaches(l) /\ IsInvoke(ScannedStmt(l))
        /\ ~IsExternal(ScannedStmt(l).callee)
        /\ image[ScannedStmt(l).callee].blocks # <<>>
        /\ Len(scan.resolve[l]) = 3

\* C6: a call to a method that is not in the image gets exactly one call
\* successor, to (declared callee, 0, 0), without an answer of the dispatch
\* resolver, and the scan of its block gives no fallthrough successor.
C6_ExternalCall ==
    Scanned =>
        \A l \in Window :
            IsInvoke(ScannedStmt(l)) /\ IsExternal(ScannedStmt(l).callee) =>
               /\ ~HasFallthrough
               /\ l \notin DOMAIN scan.resolve
               /\ ScanReaches(l) =>
                     CallsFrom(l) =
                        <<Successor(l, scan.addr,
                              SootAddressDescriptor(ScannedStmt(l).callee, 0, 0), "Ijk_Call")>>

\* an external call was reached in a block that is followed by more than one statement
C6_Witness ==
    Scanned /\ \E l \in Window :
        /\ IsInvoke(ScannedStmt(l)) /\ IsExternal(ScannedStmt(l).callee)
        /\ ScanReaches(l)
        /\ DefaultExitBeforeScan(ScannedBlock, image["A"].blocks)

\* C7: the scan, from its first statement, of a block that is not the last of its
\* method, ends with a conditional branch and holds no other branch, goto or
\* call gives two successors: the branch and the fallthrough to the next block.
C7_BranchAndFallthrough ==
    (/\ Scanned
     /\ scan.addr.stmt_idx = ScannedBlock.label
     /\ ScannedBlock.idx + 1 < Len(image["A"].blocks)
     /\ ScannedStmt(LastLabel).kind = "IfStmt"
     /\ \A l \in Window : l # LastLabel =>
            ScannedStmt(l).kind \in {"Other", "AssignStmt"} /\ ~IsInvoke(ScannedStmt(l)))
    => scan.successors =
          <<Successor(LastLabel, scan.addr,
               SootAddressDescriptor("A",
                   block_by_label(image["A"].blocks, ScannedStmt(LastLabel).target).idx,
                   ScannedStmt(LastLabel).target), "Ijk_Boring"),
            Successor(DefaultStmt, scan.addr,
               SootAddressDescriptor("A", ScannedBlock.idx + 1, LastLabel + 1), "Ijk_Boring")>>

\* the fallthrough successors of the scan
Fallthroughs == SelectSeq(scan.successors, LAMBDA e : e.stmt_idx = DefaultStmt)

\* C14: a scan that reaches the end of its block past no goto and no call gives
\* one fallthrough successor, to the statement after the block, when the block
\* is not the last of its method, and none when it is the last.
C14_FallthroughIffNotLast ==
    (/\ Scanned
     /\ \A l \in Window : ScannedStmt(l).kind # "GotoStmt" /\ ~IsInvoke(ScannedStmt(l)))
    => Fallthroughs =
          IF ScannedBlock.idx + 1 < Len(image["A"].blocks)
          THEN <<Successor(DefaultStmt, scan.addr,
                    SootAddressDescriptor("A", ScannedBlock.idx + 1, LastLabel + 1),
                    "Ijk_Boring")>>
          ELSE <<>>

\* the labels of the gotos and calls of the window
Stops == {l \in Window : ScannedStmt(l).kind = "GotoStmt" \/ IsInvoke(ScannedStmt(l))}

FirstStop == CHOOSE l \in Stops : \A k \in Stops : l <= k

\* the successor a branch or goto labelled l gives
BranchOf(l) ==
    Successor(l, scan.addr,
        SootAddressDescriptor("A",
            block_by_label(image["A"].blocks, ScannedStmt(l).target).idx,
            ScannedStmt(l).target), "Ijk_Boring")

\* C15: a scan stops at the first call or goto of its window: no statement
\* after it gives a successor, a goto gives exactly one successor, to its
\* destination, and the branches before it keep theirs.
C15_ScanStopsAtCallOrGoto ==
    Scanned /\ Stops # {} =>
        /\ \A i \in DOMAIN scan.successors :
              scan.successors[i].stmt_idx # DefaultStmt =>
                 scan.successors[i].stmt_idx <= FirstStop
        /\ ScannedStmt(FirstStop).kind = "GotoStmt" =>
              SelectSeq(scan.successors, LAMBDA e : e.stmt_idx = FirstStop)
                 = <<BranchOf(FirstStop)>>
        /\ \A l \in Window :
              l < FirstStop /\ ScannedStmt(l).kind = "IfStmt" =>
                 \E i \in DOMAIN scan.successors : scan.successors[i] = BranchOf(l)

HasCall == \E i \in DOMAIN scan.successors : scan.successors[i].jumpkind = "Ijk_Call"

\* C16: the successors of one scan never hold a call successor together with
\* a fallthrough successor.
C16_CallExcludesFallthrough == Scanned => ~(HasCall /\ HasFallthrough)

\* a scan with two call successors of a block that would fall through to the
\* next block
C16_Witness ==
    /\ Scanned /\ HasCall
    /\ DefaultExitBeforeScan(ScannedBlock, image["A"].blocks)
    /\ Len(scan.successors) >= 2

\* C26: every successor of a scan comes from a statement inside the extent of
\* the node: its statement lies at or after the statement the scan resumes at
\* and before that statement plus the size _soot_block_size gives the node.
C26_EdgesFromInsideNode ==
    Scanned =>
        \A i \in DOMAIN scan.successors :
           scan.successors[i].stmt_idx # DefaultStmt =>
              /\ scan.addr.stmt_idx <= scan.successors[i].stmt_idx
              /\ scan.successors[i].stmt_idx < scan.addr.stmt_idx + scan.size

-----------------------------------------------------------------------------
(* Properties of the jobs of a list of successors. *)

\* the jobs made for the i-th successor
MadeFor(i) ==
    SelectSeq(made.entries, LAMBDA j : j.src_stmt_idx = made.successors[i].stmt_idx)

\* the function of the node at a target that is traced and has a node, and the
\* current function for any other target
TargetFunction(target) ==
    IF target \in traced /\ \E n \in gnodes : n.addr = target
    THEN (CHOOSE n \in gnodes : n.addr = target).function_address
    ELSE made.function_addr

\* C28: a successor that is no call and has a target gives exactly one job, in
\* the function of the target's node if the target is traced and has a node
\* and in the current function otherwise, with one transition edge that leaves
\* the function exactly when the two functions differ; a successor of an
\* unsupported kind or without a target gives no job.
C28_OneJobPerPlainSuccessor ==
    made.phase = "made" =>
        \A i \in DOMAIN made.successors :
           LET suc == made.successors[i] IN
           /\ (suc.jumpkind = "Ijk_Boring" /\ suc.target # NoAddr) =>
                 /\ Len(MadeFor(i)) = 1
                 /\ MadeFor(i)[1].addr = suc.target
                 /\ MadeFor(i)[1].jumpkind = "Ijk_Boring"
                 /\ MadeFor(i)[1].func_addr = TargetFunction(suc.target)
                 /\ Cardinality(MadeFor(i)[1].func_edges) = 1
                 /\ \A e \in MadeFor(i)[1].func_edges :
                       /\ e.kind = "transition"
                       /\ e.dst_addr = suc.target
                       /\ e.src_func = made.function_addr
                       /\ e.dst_func = TargetFunction(suc.target)
                       /\ e.to_outside <=> (TargetFunction(suc.target) # made.function_addr)
           /\ (suc.target = NoAddr \/ suc.jumpkind \in {"Ijk_Ret", "Ijk_Exit"}) =>
                 MadeFor(i) = <<>>

C28_Witness ==
    /\ made.phase = "made"
    /\ Len(made.successors) = 2
    /\ Len(made.entries) = 1
    /\ made.successors[1].jumpkind = "Ijk_Exit"
    /\ \E e \in made.entries[1].func_edges : e.kind = "transition" /\ e.to_outside

====
